---- MODULE Spec2Model ----
(***************************************************************************)
(* A model of src/app.py: the shared request-rate limiter                  *)
(* (wait_for_rate_limit), the quote chain (CoinMarketCapClient,            *)
(* DataAggregator.get_price_data), the chain explorer client               *)
(* (EtherscanClient), the whale-flow analyzer (WhaleTracker), the signal   *)
(* generator (SignalGenerator) and the scan route (get_signals).           *)
(*                                                                         *)
(* Time is counted in ticks of 100 ms: time.time() is the variable clock.  *)
(***************************************************************************)
EXTENDS Integers, Sequences, FiniteSets, TLC

(***************************************************************************)
(* Bounds of the model.                                                    *)
(***************************************************************************)
\* last clock value the limiter specifications explore (ticks)
MaxTime == 11
\* number of wait_for_rate_limit() calls started in one behaviour
MaxCalls == 3
\* number of concurrent caller threads in SpecConcurrent
NThreads == 2
\* number of times one call is followed through time.sleep
MaxSleeps == 2
\* longest batch of transfers given to the analyzer in SpecFlow
MaxTx == 3
MaxOps == 2

(***************************************************************************)
(* Program constants.                                                      *)
(***************************************************************************)
\* src/app.py:31
REQUESTS_PER_SECOND == 2
\* src/app.py:32  deque(maxlen=REQUESTS_PER_SECOND * 2)
DequeMaxLen == REQUESTS_PER_SECOND * 2
\* src/app.py:66  the 1 in "now - oldest < 1", in ticks
Second == 10
\* src/app.py:67  the 0.1 in "1 - (now - oldest) + 0.1", in ticks
Margin == 1

Threads == 1..NThreads
NoThread == 0

VARIABLES
  clock,          \* time.time(), in ticks
  request_times,  \* the deque of src/app.py:32, oldest first
  data_lock,      \* holder of data_lock (src/app.py:59), NoThread when free
  pc,             \* per thread: position inside wait_for_rate_limit
                  \* ("idle": never called, "done": its last call returned)
  now,            \* per thread: the local "now" of src/app.py:62 (0 outside a call)
  wakeAt,         \* per thread: the time its time.sleep() ends
  calls,          \* number of calls started so far
  recorded,       \* history: every timestamp appended, in append order
  sleeps,         \* history, per thread: sleeps of the call in progress
  appended,       \* history, per thread: appends of the last call
  returned,       \* history: number of calls that have returned
  flowIn,         \* SpecFlow: the batch and the price given to the analyzer
  flowOut,        \* SpecFlow: the FlowResult it computed
  sigIn,          \* SpecSignal: the arguments of the call
  sigOut,         \* SpecSignal: the signal returned
  config,         \* [cmc_key, etherscan_key]: which credentials are set (lines 20-21)
  signal_generator, \* the SignalGenerator object: [btc_regime] (line 302)
  cache,          \* the dict of lines 34-37: [prices, whale_transactions]
  op,             \* the request being served, None when there is none
  ppc,            \* position of the serving thread inside the request
  frame,          \* the locals of the functions on the serving thread's stack
  response,       \* what the last request returned
  stats,          \* history: numbers of outbound requests issued, requests served
  network         \* [latency]: how long an outbound request takes in this run

limVars == <<clock, request_times, data_lock, pc, now, wakeAt, calls,
             recorded, sleeps, appended, returned>>
flowVars == <<flowIn, flowOut>>
sigVars == <<sigIn, sigOut>>
pipeVars == <<config, signal_generator, cache, op, ppc, frame, response, stats, network>>
\* the limiter's variables but the clock
limRest == <<request_times, data_lock, pc, now, wakeAt, calls, recorded,
             sleeps, appended, returned>>

vars == <<limVars, flowVars, sigVars, pipeVars>>
\* what the limiter alone leaves as it is
notLim == <<flowVars, sigVars, pipeVars>>
\* what no step of a request changes
pipeFixed == <<flowVars, sigVars, config, signal_generator, network>>

(***************************************************************************)
(* wait_for_rate_limit, src/app.py:61-70.                                  *)
(***************************************************************************)
\* deque.append on a deque with maxlen: a full deque drops its leftmost item
DequeAppend(q, x) ==
  IF Len(q) >= DequeMaxLen THEN Append(Tail(q), x) ELSE Append(q, x)

\* the loop condition of line 64
WindowFull_Gt(q) == Len(q) > REQUESTS_PER_SECOND
WindowFull_Never(q) == FALSE
WindowFull(q) == Len(q) >= REQUESTS_PER_SECOND

\* the test of line 66
Younger(n, oldest) == n - oldest < Second

\* the argument of time.sleep on line 67
SleepFor(n, oldest) == Second - (n - oldest) + Margin

\* "with data_lock" can be entered
LockFree_None == TRUE
LockFree == data_lock = NoThread

\* SignalGenerator.__init__ with the regime set to accumulation
NewSignalGenerator_Accumulation == [btc_regime |-> "accumulation"]
\* SignalGenerator.__init__, lines 300-302, called once on line 436
NewSignalGenerator == [btc_regime |-> "distribution"]

\* the variables of the other specifications, at rest
FlowIdle == flowIn = <<>> /\ flowOut = <<>>
SigIdle == sigIn = <<>> /\ sigOut = <<>>
PipeIdle ==
  /\ config = [cmc_key |-> FALSE, etherscan_key |-> FALSE]
  /\ signal_generator = NewSignalGenerator
  /\ cache = <<>>
  /\ op = <<>>
  /\ ppc = "idle"
  /\ frame = <<>>
  /\ response = <<>>
  /\ stats = <<>>
  /\ network = <<>>

LimInit ==
  /\ clock = 0
  /\ request_times = <<>>
  /\ data_lock = NoThread
  /\ pc = [t \in Threads |-> "idle"]
  /\ now = [t \in Threads |-> 0]
  /\ wakeAt = [t \in Threads |-> 0]
  /\ calls = 0
  /\ recorded = <<>>
  /\ sleeps = [t \in Threads |-> 0]
  /\ appended = [t \in Threads |-> 0]
  /\ returned = 0

\* a caller enters wait_for_rate_limit; line 62: now = time.time()
ReadClock(t) ==
  /\ pc[t] \in {"idle", "done"}
  /\ calls' = calls + 1
  /\ now' = [now EXCEPT ![t] = clock]
  /\ pc' = [pc EXCEPT ![t] = "lock"]
  /\ sleeps' = [sleeps EXCEPT ![t] = 0]
  /\ appended' = [appended EXCEPT ![t] = 0]
  /\ UNCHANGED <<clock, request_times, data_lock, wakeAt, recorded, returned>>

\* line 63: with data_lock
AcquireLock(t) ==
  /\ pc[t] = "lock"
  /\ LockFree
  /\ data_lock' = t
  /\ pc' = [pc EXCEPT ![t] = "loop"]
  /\ UNCHANGED <<clock, request_times, now, wakeAt, calls, recorded,
                 sleeps, appended, returned>>

\* lines 64-69: one evaluation of the while test and of the loop body
LoopSleep(t) ==
  /\ pc[t] = "loop"
  /\ WindowFull(request_times)
  /\ Younger(now[t], Head(request_times))
  /\ sleeps[t] < MaxSleeps
  /\ wakeAt' = [wakeAt EXCEPT ![t] = clock + SleepFor(now[t], Head(request_times))]
  /\ sleeps' = [sleeps EXCEPT ![t] = @ + 1]
  /\ pc' = [pc EXCEPT ![t] = "sleep"]
  /\ UNCHANGED <<clock, request_times, data_lock, now, calls, recorded,
                 appended, returned>>

LoopPop(t) ==
  /\ pc[t] = "loop"
  /\ WindowFull(request_times)
  /\ ~Younger(now[t], Head(request_times))
  /\ request_times' = Tail(request_times)
  /\ UNCHANGED <<clock, data_lock, pc, now, wakeAt, calls, recorded,
                 sleeps, appended, returned>>

\* line 67: time.sleep returns once the time has passed
Wake(t) ==
  /\ pc[t] = "sleep"
  /\ clock >= wakeAt[t]
  /\ wakeAt' = [wakeAt EXCEPT ![t] = 0]
  /\ pc' = [pc EXCEPT ![t] = "loop"]
  /\ UNCHANGED <<clock, request_times, data_lock, now, calls, recorded,
                 sleeps, appended, returned>>

\* line 64: the while test fails, the loop is left
LoopExit(t) ==
  /\ pc[t] = "loop"
  /\ ~WindowFull(request_times)
  /\ pc' = [pc EXCEPT ![t] = "append"]
  /\ UNCHANGED <<clock, request_times, data_lock, now, wakeAt, calls, recorded,
                 sleeps, appended, returned>>

\* line 70: request_times.append(now), the lock is released, the call returns
AppendNow(t) ==
  /\ pc[t] = "append"
  /\ request_times' = DequeAppend(request_times, now[t])
  /\ recorded' = Append(recorded, now[t])
  /\ appended' = [appended EXCEPT ![t] = @ + 1]
  /\ returned' = returned + 1
  /\ data_lock' = NoThread
  /\ now' = [now EXCEPT ![t] = 0]
  /\ pc' = [pc EXCEPT ![t] = "done"]
  /\ UNCHANGED <<clock, wakeAt, calls, sleeps>>

\* time passes
Tick ==
  /\ clock < MaxTime
  /\ clock' = clock + 1
  /\ UNCHANGED <<request_times, data_lock, pc, now, wakeAt, calls, recorded,
                 sleeps, appended, returned>>

\* one caller: the reference scheduling (spec section 5)
SeqNext ==
  \/ calls < MaxCalls /\ ReadClock(1) /\ UNCHANGED notLim
  \/ AcquireLock(1) /\ UNCHANGED notLim
  \/ LoopSleep(1) /\ UNCHANGED notLim
  \/ LoopPop(1) /\ UNCHANGED notLim
  \/ Wake(1) /\ UNCHANGED notLim
  \/ LoopExit(1) /\ UNCHANGED notLim
  \/ AppendNow(1) /\ UNCHANGED notLim
  \/ Tick /\ UNCHANGED notLim

SeqInit == LimInit /\ FlowIdle /\ SigIdle /\ PipeIdle

SpecSequential == SeqInit /\ [][SeqNext]_vars

\* several callers, every interleaving
ConcNext ==
  \/ \E t \in Threads : calls < MaxCalls /\ ReadClock(t) /\ UNCHANGED notLim
  \/ \E t \in Threads : AcquireLock(t) /\ UNCHANGED notLim
  \/ \E t \in Threads : LoopSleep(t) /\ UNCHANGED notLim
  \/ \E t \in Threads : LoopPop(t) /\ UNCHANGED notLim
  \/ \E t \in Threads : Wake(t) /\ UNCHANGED notLim
  \/ \E t \in Threads : LoopExit(t) /\ UNCHANGED notLim
  \/ \E t \in Threads : AppendNow(t) /\ UNCHANGED notLim
  \/ Tick /\ UNCHANGED notLim

SpecConcurrent == SeqInit /\ [][ConcNext]_vars

(***************************************************************************)
(* IEEE-754 double arithmetic on whole numbers.                            *)
(* Python computes every USD amount in doubles (the true division of line  *)
(* 196 yields a float). A double holds every whole number below 2^53       *)
(* exactly and rounds larger results to 53 significant bits, ties to even. *)
(* A whole-valued double is carried as [hi, lo], standing for              *)
(* hi * 2^53 + lo with lo small, so that the rounding of a sum can be      *)
(* computed without leaving the integers.                                  *)
(***************************************************************************)
Dbl(h, l) == [hi |-> h, lo |-> l]
DZero == Dbl(0, 0)

RECURSIVE Pow2Floor(_)
\* the largest power of two that is <= n, for n >= 1
Pow2Floor(n) == IF n <= 1 THEN 1 ELSE 2 * Pow2Floor(n \div 2)

\* l rounded to the nearest multiple of q, a tie going to the even multiple
RoundHalfEven(l, q) ==
  LET r == l % q
      base == l - r
  IN  IF 2 * r < q THEN base
      ELSE IF 2 * r > q THEN base + q
      ELSE IF (base \div q) % 2 = 0 THEN base ELSE base + q

\* the double nearest to the whole number hi * 2^53 + lo
DRound(x) ==
  LET neg == x.hi < 0 \/ (x.hi = 0 /\ x.lo < 0)
      h == IF neg THEN -x.hi ELSE x.hi
      l == IF neg THEN -x.lo ELSE x.lo
      \* |x| lies in [heff * 2^53, (heff + 1) * 2^53)
      heff == IF l >= 0 THEN h ELSE h - 1
  IN  IF heff <= 0 THEN x
      ELSE LET l2 == RoundHalfEven(l, 2 * Pow2Floor(heff))
           IN  IF neg THEN Dbl(-h, -l2) ELSE Dbl(h, l2)

\* float + float, float - float, float * int
DAdd_Exact(x, y) == Dbl(x.hi + y.hi, x.lo + y.lo)
DAdd(x, y) == DRound(Dbl(x.hi + y.hi, x.lo + y.lo))
DSub(x, y) == DRound(Dbl(x.hi - y.hi, x.lo - y.lo))
DMulInt(x, p) == DRound(Dbl(x.hi * p, x.lo * p))
\* float > int, for an int below 2^53
DGtInt(x, c) == x.hi > 0 \/ (x.hi = 0 /\ x.lo > c)
DLtInt(x, c) == x.hi < 0 \/ (x.hi = 0 /\ x.lo < c)

(***************************************************************************)
(* WhaleTracker, src/app.py:161-225.                                       *)
(*                                                                         *)
(* A transfer record of the explorer is [from, to, amount, parse]: its     *)
(* "value" is amount * 10^tokenDecimal, so that line 196 computes the      *)
(* double nearest to amount; parse = "bad" stands for a record whose value *)
(* or tokenDecimal int() rejects. An address is [id, upper]: upper tells   *)
(* whether the explorer spelled it with capital letters.                   *)
(***************************************************************************)
Addr(i, u) == [id |-> i, upper |-> u]
\* str.lower(), lines 197-198
Lower(a) == [a EXCEPT !.upper = FALSE]

\* src/app.py:166-172 (two of the four wallets)
get_exchange_wallets == {Addr("ex1", FALSE), Addr("ex2", FALSE)}

\* src/app.py:199, the price used when no quote is cached
DefaultPrice == 2000

\* src/app.py:164
whale_threshold_usd == 500000

\* line 202
IsWhale_Ge(usd) == ~DLtInt(usd, whale_threshold_usd)
IsWhale(usd) == DGtInt(usd, whale_threshold_usd)

\* line 177 and line 188: the result of an unresolved symbol or an empty fetch
ZeroFlow == [net_flow |-> DZero, buy_pressure |-> DZero, sell_pressure |-> DZero,
             whale_count |-> 0, stamped |-> FALSE]

\* lines 195-214: one iteration of the loop over the transactions
FlowStep(acc, tx, price) ==
  IF tx.parse = "bad" THEN acc
  ELSE
    LET value == DRound(tx.amount)
        from_addr == Lower(tx.from)
        to_addr == Lower(tx.to)
        usd_value == DMulInt(value, price)
    IN  IF ~IsWhale(usd_value) THEN acc
        ELSE
          LET wallets == acc.whale_wallets \cup {from_addr, to_addr}
          IN  IF to_addr \in get_exchange_wallets
              THEN [acc EXCEPT !.whale_wallets = wallets,
                               !.sell_pressure = DAdd(@, usd_value),
                               !.net_flow = DSub(@, usd_value)]
              ELSE IF from_addr \in get_exchange_wallets
              THEN [acc EXCEPT !.whale_wallets = wallets,
                               !.buy_pressure = DAdd(@, usd_value),
                               !.net_flow = DAdd(@, usd_value)]
              ELSE [acc EXCEPT !.whale_wallets = wallets]

RECURSIVE FlowLoop(_, _, _)
\* lines 190-214
FlowLoop(acc, txs, price) ==
  IF txs = <<>> THEN acc
  ELSE FlowLoop(FlowStep(acc, Head(txs), price), Tail(txs), price)

\* lines 187-222: the result computed from a fetched batch
ComputeFlows(txs, price) ==
  IF txs = <<>> THEN ZeroFlow
  ELSE
    LET acc == FlowLoop([net_flow |-> DZero, buy_pressure |-> DZero,
                         sell_pressure |-> DZero, whale_wallets |-> {}], txs, price)
    IN  [net_flow |-> acc.net_flow, buy_pressure |-> acc.buy_pressure,
         sell_pressure |-> acc.sell_pressure,
         whale_count |-> Cardinality(acc.whale_wallets), stamped |-> TRUE]

(***************************************************************************)
(* SignalGenerator, src/app.py:299-430.                                    *)
(*                                                                         *)
(* change24h is a whole number of percent. A funding rate is a whole       *)
(* number of units of 0.005 %, so that the breakpoints 0.005, 0.025 and    *)
(* 0.05 of lines 328-348 are 1, 5 and 10. An optional value (Python's None *)
(* or a value) is the empty sequence or a sequence of one item.            *)
(***************************************************************************)
None == <<>>
Some(v) == <<v>>

\* src/app.py:39-48, restricted to the symbols of the model
TOKEN_ADDRESSES == {"ETH"}

Abs(x) == IF x < 0 THEN -x ELSE x
Min(a, b) == IF a < b THEN a ELSE b

Signal(d, l, sc, r, t, w) ==
  [direction |-> d, label |-> l, score |-> sc, risk |-> r, target |-> t, whaleProb |-> w]

\* lines 317-324
DefaultSignal == Signal("FLAT", "NO EDGE", 0, "MEDIUM", "", 60)

\* lines 326-357 with breakpoints that are not strict
ScalpSignal_Ge(funding) ==
  LET direction == IF funding > 0 THEN "SHORT" ELSE "LONG"
  IN  IF Abs(funding) >= 10
      THEN Signal(direction, "EXTREME SQUEEZE", 90, "HIGH",
                  IF funding > 0 THEN "2-3% down" ELSE "2-3% up", 85)
      ELSE IF Abs(funding) >= 5
      THEN Signal(direction, "FUNDING PRESSURE", 70, "MEDIUM",
                  IF funding > 0 THEN "1.5-2% down" ELSE "1.5-2% up", 70)
      ELSE IF Abs(funding) >= 1
      THEN Signal(direction, "LIGHT FUNDING BIAS", 55, "LOW", "0.5-1.5% move", 60)
      ELSE DefaultSignal

\* lines 326-357
ScalpSignal(funding) ==
  LET direction == IF funding > 0 THEN "SHORT" ELSE "LONG"
      way == IF funding > 0 THEN "down" ELSE "up"
  IN  IF Abs(funding) > 10
      THEN Signal(direction, "EXTREME SQUEEZE", 90, "HIGH",
                  IF way = "down" THEN "2-3% down" ELSE "2-3% up", 85)
      ELSE IF Abs(funding) > 5
      THEN Signal(direction, "FUNDING PRESSURE", 70, "MEDIUM",
                  IF way = "down" THEN "1.5-2% down" ELSE "1.5-2% up", 70)
      ELSE IF Abs(funding) > 1
      THEN Signal(direction, "LIGHT FUNDING BIAS", 55, "LOW", "0.5-1.5% move", 60)
      ELSE DefaultSignal

\* lines 359-385 with an unaligned move of 6 to 12 % falling through to the
\* rule of line 376
DaySignal_FallThrough(change24h, btc_regime) ==
  LET up == change24h > 0
      mild == Signal(IF up THEN "LONG" ELSE "SHORT", "MILD MOMENTUM", 52, "LOW",
                     IF up THEN "1-3% up" ELSE "1-3% down", 60)
  IN  IF Abs(change24h) > 12
      THEN Signal(IF up THEN "LONG" ELSE "SHORT",
                  IF up THEN "BREAKOUT" ELSE "CAPITULATION", 80, "HIGH",
                  IF up THEN "4-6% up" ELSE "4-6% down", 80)
      ELSE IF Abs(change24h) > 6 /\ change24h > 0 /\ btc_regime = "accumulation"
      THEN Signal("LONG", "BTC BETA PLAY", 65, "MEDIUM", "3-4% up", 65)
      ELSE IF Abs(change24h) > 6 /\ change24h < 0 /\ btc_regime = "distribution"
      THEN Signal("SHORT", "DISTRIBUTION SELL", 65, "MEDIUM", "3-4% down", 65)
      ELSE IF Abs(change24h) > 2 THEN mild
      ELSE DefaultSignal

\* lines 359-385
DaySignal(change24h, btc_regime) ==
  LET up == change24h > 0
  IN  IF Abs(change24h) > 12
      THEN Signal(IF up THEN "LONG" ELSE "SHORT",
                  IF up THEN "BREAKOUT" ELSE "CAPITULATION", 80, "HIGH",
                  IF up THEN "4-6% up" ELSE "4-6% down", 80)
      ELSE IF Abs(change24h) > 6
      THEN IF change24h > 0 /\ btc_regime = "accumulation"
           THEN Signal("LONG", "BTC BETA PLAY", 65, "MEDIUM", "3-4% up", 65)
           ELSE IF change24h < 0 /\ btc_regime = "distribution"
           THEN Signal("SHORT", "DISTRIBUTION SELL", 65, "MEDIUM", "3-4% down", 65)
           ELSE DefaultSignal
      ELSE IF Abs(change24h) > 2
      THEN Signal(IF up THEN "LONG" ELSE "SHORT", "MILD MOMENTUM", 52, "LOW",
                  IF up THEN "1-3% up" ELSE "1-3% down", 60)
      ELSE DefaultSignal

\* lines 387-409 without the BTC rule of lines 388-397
SwingSignal_NoBtcRule(symbol, change24h, btc_regime) ==
  IF btc_regime = "accumulation" /\ 5 < change24h /\ change24h < 15
  THEN Signal("LONG", "POSITION BUILD", 75, "MEDIUM", "15-30% up", 75)
  ELSE IF Abs(change24h) > 3
  THEN Signal(IF change24h > 0 THEN "LONG" ELSE "SHORT", "SWING MOMENTUM", 55, "MEDIUM",
              IF change24h > 0 THEN "5-15% up" ELSE "5-15% down", 65)
  ELSE DefaultSignal

\* lines 387-409
SwingSignal(symbol, change24h, btc_regime) ==
  IF symbol = "BTC"
  THEN LET direction == IF btc_regime = "accumulation" THEN "LONG" ELSE "SHORT"
       IN  Signal(direction,
                  IF btc_regime = "accumulation" THEN "ACCUMULATION PHASE"
                  ELSE "DISTRIBUTION PHASE",
                  90, "LOW",
                  IF direction = "LONG" THEN "20-40% up" ELSE "20-40% down", 95)
  ELSE IF btc_regime = "accumulation" /\ 5 < change24h /\ change24h < 15
  THEN Signal("LONG", "POSITION BUILD", 75, "MEDIUM", "15-30% up", 75)
  ELSE IF Abs(change24h) > 3
  THEN Signal(IF change24h > 0 THEN "LONG" ELSE "SHORT", "SWING MOMENTUM", 55, "MEDIUM",
              IF change24h > 0 THEN "5-15% up" ELSE "5-15% down", 65)
  ELSE DefaultSignal

\* _generate_base_signal, lines 312-411
GenerateBaseSignal(coin_data, timeframe, btc_regime) ==
  IF timeframe = "scalp" /\ coin_data.funding # None
  THEN ScalpSignal(coin_data.funding[1])
  ELSE IF timeframe = "day"
  THEN DaySignal(coin_data.change24h, btc_regime)
  ELSE IF timeframe = "swing"
  THEN SwingSignal(coin_data.symbol, coin_data.change24h, btc_regime)
  ELSE DefaultSignal

\* lines 416-420, in units of 1/100000 of a score point: net_flow / 100000
\* capped at 20
FlowBoost(direction, net_flow) ==
  IF direction = "LONG" /\ DGtInt(net_flow, 100000)
  THEN (IF net_flow.hi > 0 THEN 20 * 100000 ELSE Min(20 * 100000, net_flow.lo))
  ELSE IF direction = "SHORT" /\ DLtInt(net_flow, -100000)
  THEN (IF net_flow.hi < 0 THEN 20 * 100000 ELSE Min(20 * 100000, -net_flow.lo))
  ELSE 0

\* line 421
WhaleBoost(whale_count) == Min(10, whale_count * 2)

\* lines 422 and 425: int(min(95, score + flow_boost + whale_boost))
EnhancedScore_NoCap(score, flow_boost, whale_boost) ==
  ((score + whale_boost) * 100000 + flow_boost) \div 100000
EnhancedScore(score, flow_boost, whale_boost) ==
  Min(95 * 100000, (score + whale_boost) * 100000 + flow_boost) \div 100000

\* _enhance_with_whale_data, lines 413-430
EnhanceWithWhaleData(signal, whale_flows) ==
  [direction |-> signal.direction, label |-> signal.label,
   score |-> EnhancedScore(signal.score,
                           FlowBoost(signal.direction, whale_flows.net_flow),
                           WhaleBoost(whale_flows.whale_count)),
   risk |-> signal.risk, target |-> signal.target, whaleProb |-> signal.whaleProb,
   whale_flow |-> whale_flows.net_flow, whale_count |-> whale_flows.whale_count]

\* lines 304-310 without the test of the symbol on line 306
GenerateSignals_AnySymbol(coin_data, timeframe, btc_regime, whale_tracker) ==
  LET base_signal == GenerateBaseSignal(coin_data, timeframe, btc_regime)
  IN  IF /\ whale_tracker
         /\ coin_data.whale_flows # None
         /\ coin_data.whale_flows[1].whale_count > 0
      THEN EnhanceWithWhaleData(base_signal, coin_data.whale_flows[1])
      ELSE base_signal

\* generate_signals, lines 304-310
GenerateSignals(coin_data, timeframe, btc_regime, whale_tracker) ==
  LET base_signal == GenerateBaseSignal(coin_data, timeframe, btc_regime)
  IN  IF /\ coin_data.symbol \in TOKEN_ADDRESSES
         /\ whale_tracker
         /\ coin_data.whale_flows # None
         /\ coin_data.whale_flows[1].whale_count > 0
      THEN EnhanceWithWhaleData(base_signal, coin_data.whale_flows[1])
      ELSE base_signal

(***************************************************************************)
(* SpecFlow: the analyzer's computation (lines 187-222) applied to every   *)
(* batch of at most MaxTx transfers.                                       *)
(***************************************************************************)
FlowFrom == {Addr("ex1", FALSE), Addr("w1", FALSE)}
FlowTo == {Addr("ex1", TRUE), Addr("w1", TRUE), Addr("w2", FALSE)}
BadTransfer == [from |-> Addr("w1", FALSE), to |-> Addr("w2", FALSE),
                amount |-> DZero, parse |-> "bad"]
TransfersOf(amounts) ==
  [from : FlowFrom, to : FlowTo, amount : amounts, parse : {"ok"}] \cup {BadTransfer}
BatchesOf(transfers) == UNION {[1..n -> transfers] : n \in 0..MaxTx}

\* a cached quote of 1 USD (a stablecoin), amounts around the whale threshold
\* and one of 2^53 tokens; no cached quote (the default price), amounts around
\* 500000 / 2000
FlowInputs ==
  [txs : BatchesOf(TransfersOf({Dbl(0, 500000), Dbl(0, 500001), Dbl(1, 0)})),
   price : {1}]
  \cup
  [txs : BatchesOf(TransfersOf({Dbl(0, 250), Dbl(0, 251)})), price : {DefaultPrice}]

FlowInit == LimInit /\ SigIdle /\ PipeIdle /\ flowIn \in FlowInputs /\ flowOut = None

FlowApply ==
  /\ flowOut = None
  /\ flowOut' = Some(ComputeFlows(flowIn.txs, flowIn.price))
  /\ UNCHANGED flowIn

FlowNext == FlowApply /\ UNCHANGED <<limVars, sigVars, pipeVars>>

SpecFlow == FlowInit /\ [][FlowNext]_vars

(***************************************************************************)
(* SpecSignal: generate_signals and _enhance_with_whale_data applied to    *)
(* inputs on both sides of every breakpoint.                               *)
(***************************************************************************)
Regimes == {"accumulation", "distribution"}
Timeframes == {"scalp", "day", "swing"}
SigSymbols == {"BTC", "ETH"}
SigChanges == {-16, -13, -12, -7, -6, -4, -3, -2, 0, 2, 3, 4, 5, 6, 7, 12, 13, 14, 15, 16}
SigFundings == {None} \cup {Some(f) : f \in {-11, -10, -6, -5, -2, -1, 0, 1, 2, 5, 6, 10, 11}}
SigNets == {Dbl(0, -2500000), Dbl(0, -250000), Dbl(0, -100000), DZero, Dbl(0, 100000),
            Dbl(0, 100001), Dbl(0, 250000), Dbl(0, 1999999), Dbl(0, 2500000), Dbl(1, 0)}
FlowOf(net, count) ==
  [net_flow |-> net,
   buy_pressure |-> IF DGtInt(net, 0) THEN net ELSE DZero,
   sell_pressure |-> IF DLtInt(net, 0) THEN Dbl(-net.hi, -net.lo) ELSE DZero,
   whale_count |-> count, stamped |-> TRUE]
SigFlowResults == {FlowOf(n, k) : n \in SigNets, k \in {0, 1, 4, 5, 6}}
SigFlows == {None} \cup {Some(f) : f \in SigFlowResults}

CoinData(sym, c, f, w) == [symbol |-> sym, change24h |-> c, funding |-> f, whale_flows |-> w]

\* scalp reads the funding rate; day and swing read the 24h change
SigCoinData(timeframe) ==
  IF timeframe = "scalp"
  THEN {CoinData(sym, c, f, w) : sym \in SigSymbols, c \in {0, 13}, f \in SigFundings, w \in SigFlows}
  ELSE {CoinData(sym, c, f, w) : sym \in SigSymbols, c \in SigChanges,
                                 f \in {None, Some(11)}, w \in SigFlows}

GenerateInputs ==
  UNION {[call : {"generate_signals"}, coin_data : SigCoinData(tf), timeframe : {tf},
          btc_regime : Regimes, whale_tracker : BOOLEAN] : tf \in Timeframes}

\* every signal _generate_base_signal returns
BaseSignals ==
  {ScalpSignal(f) : f \in {-11, -10, -6, -5, -2, -1, 0, 1, 2, 5, 6, 10, 11}}
  \cup {DaySignal(c, r) : c \in SigChanges, r \in Regimes}
  \cup {SwingSignal(sym, c, r) : sym \in SigSymbols, c \in SigChanges, r \in Regimes}

EnhanceInputs ==
  [call : {"_enhance_with_whale_data"}, signal : BaseSignals, whale_flows : SigFlowResults]

\* _generate_base_signal does not read the flows
BaseInputs ==
  UNION {[call : {"_generate_base_signal"},
          coin_data : {cd \in SigCoinData(tf) : cd.whale_flows = None},
          timeframe : {tf}, btc_regime : Regimes] : tf \in Timeframes}

SigInit ==
  /\ LimInit /\ FlowIdle /\ PipeIdle
  /\ sigIn \in GenerateInputs \cup EnhanceInputs \cup BaseInputs
  /\ sigOut = None

SigGenerate ==
  /\ sigOut = None
  /\ sigIn.call = "generate_signals"
  /\ sigOut' = Some(GenerateSignals(sigIn.coin_data, sigIn.timeframe, sigIn.btc_regime,
                                    sigIn.whale_tracker))
  /\ UNCHANGED sigIn

SigEnhance ==
  /\ sigOut = None
  /\ sigIn.call = "_enhance_with_whale_data"
  /\ sigOut' = Some(EnhanceWithWhaleData(sigIn.signal, sigIn.whale_flows))
  /\ UNCHANGED sigIn

SigBaseSignal ==
  /\ sigOut = None
  /\ sigIn.call = "_generate_base_signal"
  /\ sigOut' = Some(GenerateBaseSignal(sigIn.coin_data, sigIn.timeframe, sigIn.btc_regime))
  /\ UNCHANGED sigIn

SigNext ==
  \/ SigBaseSignal /\ UNCHANGED <<limVars, flowVars, pipeVars>>
  \/ SigGenerate /\ UNCHANGED <<limVars, flowVars, pipeVars>>
  \/ SigEnhance /\ UNCHANGED <<limVars, flowVars, pipeVars>>

SpecSignal == SigInit /\ [][SigNext]_vars

(***************************************************************************)
(* The request pipeline: the routes of lines 445-511 served by one thread  *)
(* (thread 1 of the limiter), with DataAggregator (lines 230-294), the     *)
(* two clients (lines 92-156) and WhaleTracker.analyze_whale_flows.        *)
(*                                                                         *)
(* Time passes while the thread is blocked: in time.sleep and in an        *)
(* outbound request. A JSON object is a function from a fixed set of keys  *)
(* to an optional value, None standing for a key that is not there.        *)
(***************************************************************************)
\* src/app.py:50-57, the first two symbols
COIN_SYMBOLS == <<"BTC", "ETH">>
Symbols == {"BTC", "ETH"}

\* str.upper() and str.lower() on the symbols of the model
Upper(s) == CASE s = "btc" -> "BTC" [] s = "eth" -> "ETH" [] OTHER -> s
LowerSym(s) == CASE s = "BTC" -> "btc" [] s = "ETH" -> "eth" [] OTHER -> s

\* line 183: 300 seconds
CacheTTL == 300 * Second

\* the windows analyze_whale_flows is called with
Hours == {1, 24}
\* line 179: f"whale_{token_symbol}_{hours}"
CacheKey(token_symbol, hours) == <<token_symbol, hours>>
CacheKeys == Symbols \X Hours

\* how long an outbound request takes: 0.1 s on a fast network, 1 s on a slow one
Latencies == {1, Second}
\* how long the server stays idle between two calls
IdleWaits == {Second, CacheTTL - 3, CacheTTL - 2}

EmptyDict == [s \in Symbols |-> None]
Truthy(dict) == \E k \in DOMAIN dict : dict[k] # None

\* the quote object of a CoinMarketCap entry
UsdQuote(p, c) == [quote |-> Some([USD |-> Some([price |-> p, percent_change_24h |-> c])])]
\* what the provider may list under a symbol: nothing, an entry without
\* "quote", one without "USD", one without a price, a price with or without a
\* change (None stands for a key that is not there)
CmcEntries ==
  {<<>>, <<[quote |-> None]>>, <<[quote |-> Some([USD |-> None])]>>,
   <<UsdQuote(None, Some(13))>>, <<UsdQuote(Some(1), None)>>,
   <<UsdQuote(Some(1), Some(-7))>>, <<UsdQuote(Some(1), Some(7))>>,
   <<UsdQuote(Some(1), Some(13))>>}
OtherSymbol(s) == IF s = "BTC" THEN "ETH" ELSE "BTC"
\* the "data" object of a response to a request for symbol s
CmcData(s) ==
  {EmptyDict, [EmptyDict EXCEPT ![OtherSymbol(s)] = Some(<<UsdQuote(Some(1), Some(13))>>)]}
  \cup {[EmptyDict EXCEPT ![s] = Some(e)] : e \in CmcEntries}
\* a request either raises (transport error, HTTP error status) or yields a
\* JSON body, with or without "data"
CmcOutcomes(s) ==
  {[raises |-> TRUE, data |-> None], [raises |-> FALSE, data |-> None]}
  \cup {[raises |-> FALSE, data |-> Some(d)] : d \in CmcData(s)}

\* lines 107-115: the value get_quotes_latest returns after the request
QuotesOf(outcome) ==
  IF outcome.raises THEN Some(EmptyDict)
  ELSE IF outcome.data = None THEN Some(EmptyDict)
  ELSE outcome.data

\* the body of a CoinGecko response: ids to [usd, usd_24h_change]
CgIds == {"btc", "eth"}
CgEmpty == [i \in CgIds |-> None]
CgEntries ==
  {[usd |-> None, usd_24h_change |-> Some(13)], [usd |-> Some(1), usd_24h_change |-> None],
   [usd |-> Some(1), usd_24h_change |-> Some(-7)], [usd |-> Some(1), usd_24h_change |-> Some(13)]}
CgOutcomes(id) ==
  {[raises |-> TRUE, data |-> CgEmpty], [raises |-> FALSE, data |-> CgEmpty]}
  \cup {[raises |-> FALSE, data |-> [CgEmpty EXCEPT ![id] = Some(e)]] : e \in CgEntries}

\* lines 258-275: the value get_price_data returns after the fallback request
FallbackOf(outcome, id) ==
  IF outcome.raises THEN None
  ELSE IF outcome.data[id] # None /\ outcome.data[id][1].usd # None
  THEN Some([price |-> outcome.data[id][1].usd[1],
             change24h |-> IF outcome.data[id][1].usd_24h_change = None THEN 0
                           ELSE outcome.data[id][1].usd_24h_change[1]])
  ELSE None

\* lines 242-243: does quotes[coin_id][0]['quote']['USD'] raise
QuoteRaises(quotes, coin_id) ==
  LET entries == quotes[1][coin_id][1]
  IN  IF entries = <<>> THEN TRUE
      ELSE IF entries[1].quote = None THEN TRUE
      ELSE entries[1].quote[1].USD = None

\* lines 243-249: the result built from the primary quote, None when
\* quote.get('price') is None
PrimaryOf(quotes, coin_id) ==
  LET quote == quotes[1][coin_id][1][1].quote[1].USD[1]
  IN  IF quote.price # None
      THEN Some([price |-> quote.price[1],
                 change24h |-> IF quote.percent_change_24h = None THEN 0
                               ELSE quote.percent_change_24h[1]])
      ELSE None

\* the Binance premium index: the request fails, the body has no
\* lastFundingRate, or it has a rate (in units of 0.005 %)
FundingOutcomes == {None, Some(-3), Some(11)}

\* Etherscan responses, lines 125-136: the request raises, or the body has a
\* status and a result
EthOutcome(r, s, res) == [raises |-> r, status |-> s, result |-> res]
\* line 129-136: the value _make_request returns
MakeRequestOf(outcome) ==
  IF outcome.raises THEN None
  ELSE IF outcome.status = "1" THEN outcome.result
  ELSE None

\* eth_blockNumber: a hex number, a string int(_, 16) rejects, an empty string
BlockOutcomes ==
  {EthOutcome(TRUE, "", None), EthOutcome(FALSE, "0", None), EthOutcome(FALSE, "1", None),
   EthOutcome(FALSE, "1", Some("")), EthOutcome(FALSE, "1", Some("zz")),
   EthOutcome(FALSE, "1", Some("0x10"))}
\* int(latest_block, 16), line 143: None when it raises
HexValue(s) == CASE s = "0x10" -> Some(16) [] OTHER -> None
\* lines 140-141 without the parse of lines 142-145
BlockUsable_NoParse(latest_block) == latest_block # None /\ latest_block[1] # ""
\* lines 140-145: is the block number usable
BlockUsable(latest_block) ==
  latest_block # None /\ latest_block[1] # "" /\ HexValue(latest_block[1]) # None

TransferBuy == [from |-> Addr("ex1", FALSE), to |-> Addr("w1", TRUE),
                amount |-> Dbl(0, 500001), parse |-> "ok"]
TransferSell == [from |-> Addr("w1", FALSE), to |-> Addr("ex1", TRUE),
                 amount |-> Dbl(0, 251), parse |-> "ok"]
\* the transfer lists the explorer returns
PipeBatches == {<<TransferBuy>>, <<TransferSell, BadTransfer>>, <<TransferBuy, TransferSell>>}
TxOutcomes ==
  {EthOutcome(TRUE, "", None), EthOutcome(FALSE, "0", None), EthOutcome(FALSE, "1", None),
   EthOutcome(FALSE, "1", Some(<<>>))}
  \cup {EthOutcome(FALSE, "1", Some(b)) : b \in PipeBatches}
\* line 156: _make_request(params) or []
OrEmpty(v) == IF v = None THEN <<>> ELSE v[1]

\* COIN_SYMBOLS[:limit], line 474
Slice(seq, limit) ==
  IF limit >= 0 THEN SubSeq(seq, 1, Min(limit, Len(seq)))
  ELSE SubSeq(seq, 1, IF Len(seq) + limit > 0 THEN Len(seq) + limit ELSE 0)

RECURSIVE InsertByScore(_, _)
InsertByScore(s, x) ==
  IF s = <<>> THEN <<x>>
  ELSE IF Head(s).signal.score >= x.signal.score THEN <<Head(s)>> \o InsertByScore(Tail(s), x)
  ELSE <<x>> \o s

RECURSIVE SortedByScore(_)
\* line 490: sorted(signals, key=score, reverse=True), a stable sort
SortedByScore(s) ==
  IF s = <<>> THEN <<>>
  ELSE InsertByScore(SortedByScore(SubSeq(s, 1, Len(s) - 1)), s[Len(s)])

\* the locals of the functions on the serving thread's stack
EmptyFrame ==
  [symbol |-> "", idx |-> 0, signals |-> <<>>, errors |-> <<>>,
   caller |-> "", quotes |-> None, price_data |-> None, provider |-> "",
   funding |-> None, whale_flows |-> None, coin_data |-> None,
   token_symbol |-> "", hours |-> 0, now |-> 0, fetched |-> FALSE,
   transactions |-> <<>>, flow |-> None, results |-> <<>>,
   \* what the last _make_request of get_whale_transactions returned
   reply |-> None,
   \* history: the counters when get_price_data was entered, and the number
   \* of explorer requests when get_whale_transactions was entered
   entry |-> [recorded |-> 0, cmc |-> 0, cg |-> 0], explorer_before |-> 0]

EmptyStats == [cmc |-> 0, cg |-> 0, binance |-> 0, etherscan |-> 0, served |-> 0, waits |-> 0]

EmptyCache == [prices |-> [s \in Symbols |-> None],
               whale_transactions |-> [k \in CacheKeys |-> None]]

PipeInit(configs) ==
  /\ LimInit /\ FlowIdle /\ SigIdle
  /\ config \in configs
  /\ signal_generator = NewSignalGenerator
  /\ cache = EmptyCache
  /\ op = None
  /\ ppc = "idle"
  /\ frame = EmptyFrame
  /\ response = None
  /\ stats = EmptyStats
  /\ network \in [latency : Latencies]

\* wait_for_rate_limit() has returned on the serving thread
Acquired_Always == TRUE
Acquired == pc[1] = "done"

\* the route returns
Respond(r) ==
  /\ response' = Some(r)
  /\ ppc' = "responded"
  /\ stats' = [stats EXCEPT !.served = @ + 1]

\* GET /api/signals/<timeframe>?threshold=&limit=, lines 461-471
StartScan(timeframe, threshold, limit) ==
  /\ ppc = "idle"
  /\ op' = Some([route |-> "get_signals", timeframe |-> timeframe,
                 threshold |-> threshold, limit |-> limit])
  /\ frame' = EmptyFrame
  /\ IF timeframe \notin Timeframes
     THEN Respond([status |-> 400, error |-> "Invalid timeframe"])
     ELSE ppc' = "scan_loop" /\ UNCHANGED <<response, stats>>
  /\ UNCHANGED cache

\* line 474-476: the next symbol of COIN_SYMBOLS[:limit]
ScanNext ==
  /\ ppc = "scan_loop"
  /\ frame.idx < Len(Slice(COIN_SYMBOLS, op[1].limit))
  /\ frame' = [frame EXCEPT !.symbol = Slice(COIN_SYMBOLS, op[1].limit)[frame.idx + 1]]
  /\ ppc' = "get_price_data"
  /\ UNCHANGED <<cache, op, response, stats>>

\* lines 485-493: the loop is over
ScanReturn ==
  /\ ppc = "scan_loop"
  /\ frame.idx >= Len(Slice(COIN_SYMBOLS, op[1].limit))
  /\ Respond([status |-> 200, timeframe |-> op[1].timeframe,
              phase |-> signal_generator.btc_regime,
              signals |-> SortedByScore(frame.signals), errors |-> frame.errors])
  /\ UNCHANGED <<cache, op, frame>>

\* GET /api/coin/<symbol>, line 497
StartCoin(symbol) ==
  /\ ppc = "idle"
  /\ op' = Some([route |-> "get_single_coin", symbol |-> symbol])
  /\ frame' = [EmptyFrame EXCEPT !.symbol = Upper(symbol)]
  /\ ppc' = "get_price_data"
  /\ UNCHANGED <<cache, response, stats>>

\* GET /api/debug, lines 447-449
StartDebug ==
  /\ ppc = "idle"
  /\ op' = Some([route |-> "debug_apis"])
  /\ frame' = [EmptyFrame EXCEPT !.symbol = "BTC", !.caller = "debug_apis"]
  /\ ppc' = "get_quotes_latest"
  /\ UNCHANGED <<cache, response, stats>>

\* get_price_data is entered, lines 237-241
PriceBegin ==
  /\ ppc = "get_price_data"
  /\ frame' = [frame EXCEPT !.caller = "get_price_data", !.quotes = None,
                            !.price_data = None, !.provider = "",
                            !.entry = [recorded |-> Len(recorded), cmc |-> stats.cmc,
                                       cg |-> stats.cg]]
  /\ ppc' = "get_quotes_latest"
  /\ UNCHANGED <<cache, op, response, stats>>

\* the credential test of get_quotes_latest, line 103
HasKey_Always(cfg) == TRUE
HasKey(cfg) == cfg.cmc_key

\* lines 103-105: no credential, None is returned at once
GetQuotesNoKey ==
  /\ ppc = "get_quotes_latest"
  /\ ~HasKey(config)
  /\ frame' = [frame EXCEPT !.quotes = None]
  /\ ppc' = "quotes_return"
  /\ UNCHANGED <<cache, op, response, stats>>

\* line 106: wait_for_rate_limit() is entered
GetQuotesAcquire ==
  /\ ppc = "get_quotes_latest"
  /\ HasKey(config)
  /\ ReadClock(1)
  /\ ppc' = "cmc_wait"
  /\ UNCHANGED <<cache, op, frame, response, stats>>

\* lines 107-115: the request to CoinMarketCap and its result
CmcRequest(coin_id, outcome) ==
  /\ ppc = "cmc_wait"
  /\ coin_id = Upper(frame.symbol)
  /\ Acquired
  /\ clock' = clock + network.latency
  /\ stats' = [stats EXCEPT !.cmc = @ + 1]
  /\ frame' = [frame EXCEPT !.quotes = QuotesOf(outcome)]
  /\ ppc' = "quotes_return"
  /\ UNCHANGED <<limRest, cache, op, response>>

\* line 242: quotes and coin_id in quotes
HasEntry(quotes, coin_id) ==
  quotes # None /\ Truthy(quotes[1]) /\ quotes[1][coin_id] # None

\* lines 242-252: the primary quote is usable, it is cached and returned
PricePrimary ==
  /\ ppc = "quotes_return" /\ frame.caller = "get_price_data"
  /\ HasEntry(frame.quotes, Upper(frame.symbol))
  /\ ~QuoteRaises(frame.quotes, Upper(frame.symbol))
  /\ PrimaryOf(frame.quotes, Upper(frame.symbol)) # None
  /\ frame' = [frame EXCEPT !.price_data = PrimaryOf(frame.quotes, Upper(frame.symbol)),
                            !.provider = "CMC"]
  /\ cache' = [cache EXCEPT !.prices[frame.symbol] =
                              PrimaryOf(frame.quotes, Upper(frame.symbol))]
  /\ ppc' = "price_return"
  /\ UNCHANGED <<op, response, stats>>

\* line 243: the subscripts raise IndexError or KeyError, outside any try
PriceRaise ==
  /\ ppc = "quotes_return" /\ frame.caller = "get_price_data"
  /\ HasEntry(frame.quotes, Upper(frame.symbol))
  /\ QuoteRaises(frame.quotes, Upper(frame.symbol))
  /\ ppc' = "price_raised"
  /\ UNCHANGED <<cache, op, frame, response, stats>>

\* lines 242, 253-257: no usable primary quote, on to the fallback
PriceFallThrough ==
  /\ ppc = "quotes_return" /\ frame.caller = "get_price_data"
  /\ \/ ~HasEntry(frame.quotes, Upper(frame.symbol))
     \/ /\ HasEntry(frame.quotes, Upper(frame.symbol))
        /\ ~QuoteRaises(frame.quotes, Upper(frame.symbol))
        /\ PrimaryOf(frame.quotes, Upper(frame.symbol)) = None
  /\ ppc' = "cg_request"
  /\ UNCHANGED <<cache, op, frame, response, stats>>

\* lines 257-275: the request to CoinGecko and its result
CgRequest(coin_id_lower, outcome) ==
  /\ ppc = "cg_request"
  /\ coin_id_lower = LowerSym(frame.symbol)
  /\ clock' = clock + network.latency
  /\ stats' = [stats EXCEPT !.cg = @ + 1]
  /\ LET result == FallbackOf(outcome, coin_id_lower)
     IN  /\ frame' = [frame EXCEPT !.price_data = result,
                                   !.provider = IF result = None THEN "" ELSE "CoinGecko"]
         /\ cache' = IF result = None THEN cache
                     ELSE [cache EXCEPT !.prices[frame.symbol] = result]
  /\ ppc' = "price_return"
  /\ UNCHANGED <<limRest, op, response>>

\* line 278-280: get_price_data has returned into aggregate_coin_data
AggPrice ==
  /\ ppc = "price_return" /\ op[1].route # "debug_apis"
  /\ ppc' = IF frame.price_data = None THEN "agg_return" ELSE "funding"
  /\ frame' = [frame EXCEPT !.coin_data = None, !.quotes = None]
  /\ UNCHANGED <<cache, op, response, stats>>

\* an exception leaves get_price_data in a route that has no handler for it:
\* the request fails with status 500
RouteRaise ==
  /\ ppc = "price_raised" /\ op[1].route # "debug_apis"
  /\ Respond([status |-> 500, error |-> "exception"])
  /\ UNCHANGED <<cache, op, frame>>

\* lines 75-87 and 282-284: the funding rate, then whether flows are analyzed
FundingRequest(outcome) ==
  /\ ppc = "funding"
  /\ clock' = clock + network.latency
  /\ stats' = [stats EXCEPT !.binance = @ + 1]
  /\ IF config.etherscan_key /\ Upper(frame.symbol) \in TOKEN_ADDRESSES
     THEN /\ frame' = [frame EXCEPT !.funding = outcome, !.token_symbol = frame.symbol,
                                    !.hours = 24]
          /\ ppc' = "analyze"
     ELSE /\ frame' = [frame EXCEPT !.funding = outcome, !.whale_flows = None]
          /\ ppc' = "agg_build"
  /\ UNCHANGED <<limRest, cache, op, response>>

\* WhaleTracker.analyze_whale_flows(token_symbol, hours) called directly
StartAnalyze(token_symbol, hours) ==
  /\ ppc \in {"idle", "responded"}
  /\ op' = Some([route |-> "analyze_whale_flows", token_symbol |-> token_symbol,
                 hours |-> hours])
  /\ frame' = [EmptyFrame EXCEPT !.token_symbol = token_symbol, !.hours = hours]
  /\ ppc' = "analyze"
  /\ response' = None
  /\ UNCHANGED <<cache, stats>>

\* lines 175-177: the symbol has no contract address
AnalyzeUnresolved ==
  /\ ppc = "analyze"
  /\ Upper(frame.token_symbol) \notin TOKEN_ADDRESSES
  /\ frame' = [frame EXCEPT !.flow = Some(ZeroFlow), !.fetched = FALSE]
  /\ ppc' = "analyze_return"
  /\ UNCHANGED <<cache, op, response, stats>>

\* lines 181-183: is there an entry younger than 300 s
Fresh_Le(entry, n) == entry # None /\ n - entry[1].timestamp <= CacheTTL
Fresh(entry, n) == entry # None /\ n - entry[1].timestamp < CacheTTL

\* lines 179-184: a fresh entry is returned
AnalyzeCached ==
  /\ ppc = "analyze"
  /\ Upper(frame.token_symbol) \in TOKEN_ADDRESSES
  /\ Fresh(cache.whale_transactions[CacheKey(frame.token_symbol, frame.hours)], clock)
  /\ frame' = [frame EXCEPT
       !.now = clock,
       !.flow = Some(cache.whale_transactions[CacheKey(frame.token_symbol, frame.hours)][1].data),
       !.fetched = FALSE]
  /\ ppc' = "analyze_return"
  /\ UNCHANGED <<cache, op, response, stats>>

\* lines 179-186, 139, 123: no fresh entry, the block-height request is prepared
AnalyzeFetch ==
  /\ ppc = "analyze"
  /\ Upper(frame.token_symbol) \in TOKEN_ADDRESSES
  /\ ~Fresh(cache.whale_transactions[CacheKey(frame.token_symbol, frame.hours)], clock)
  /\ frame' = [frame EXCEPT !.now = clock, !.fetched = TRUE, !.transactions = <<>>,
                            !.flow = None, !.reply = None,
                            !.explorer_before = stats.etherscan]
  /\ ReadClock(1)
  /\ ppc' = "block_wait"
  /\ UNCHANGED <<cache, op, response, stats>>

\* lines 124-145: the block-height request and what get_whale_transactions
\* does with its result
BlockRequest(outcome) ==
  /\ ppc = "block_wait"
  /\ Acquired
  /\ clock' = clock + network.latency
  /\ stats' = [stats EXCEPT !.etherscan = @ + 1]
  /\ IF BlockUsable(MakeRequestOf(outcome))
     THEN ppc' = "tx_acquire"
     ELSE ppc' = "transactions_return"
  /\ frame' = [frame EXCEPT !.transactions = <<>>, !.reply = MakeRequestOf(outcome)]
  /\ UNCHANGED <<limRest, cache, op, response>>

\* lines 146-156, 123: the transfer-list request is prepared
TxAcquire ==
  /\ ppc = "tx_acquire"
  /\ ReadClock(1)
  /\ ppc' = "tx_wait"
  /\ UNCHANGED <<cache, op, frame, response, stats>>

\* lines 124-136, 156: the transfer-list request
TxRequest(outcome) ==
  /\ ppc = "tx_wait"
  /\ Acquired
  /\ clock' = clock + network.latency
  /\ stats' = [stats EXCEPT !.etherscan = @ + 1]
  /\ frame' = [frame EXCEPT !.transactions = OrEmpty(MakeRequestOf(outcome)),
                            !.reply = MakeRequestOf(outcome)]
  /\ ppc' = "transactions_return"
  /\ UNCHANGED <<limRest, cache, op, response>>

\* line 199: the cached price of the token, 2000 when there is none
PriceFor(token_symbol) ==
  IF cache.prices[token_symbol] = None THEN DefaultPrice
  ELSE cache.prices[token_symbol][1].price

\* lines 187-188: nothing was fetched, a zero result is returned and not stored
AnalyzeEmpty ==
  /\ ppc = "transactions_return"
  /\ frame.transactions = <<>>
  /\ frame' = [frame EXCEPT !.flow = Some(ZeroFlow), !.reply = None]
  /\ ppc' = "analyze_return"
  /\ UNCHANGED <<cache, op, response, stats>>

\* lines 190-225: the result is computed, stored with the time read at line
\* 180, and returned
AnalyzeStore ==
  /\ ppc = "transactions_return"
  /\ frame.transactions # <<>>
  /\ LET result == ComputeFlows(frame.transactions, PriceFor(frame.token_symbol))
     IN  /\ frame' = [frame EXCEPT !.flow = Some(result), !.reply = None]
         /\ cache' = [cache EXCEPT
              !.whale_transactions[CacheKey(frame.token_symbol, frame.hours)] =
                 Some([data |-> result, timestamp |-> frame.now])]
  /\ ppc' = "analyze_return"
  /\ UNCHANGED <<op, response, stats>>

\* analyze_whale_flows returns to its direct caller
AnalyzeRespond ==
  /\ ppc = "analyze_return" /\ op[1].route = "analyze_whale_flows"
  /\ Respond(frame.flow[1])
  /\ UNCHANGED <<cache, op, frame>>

\* line 284: analyze_whale_flows returns into aggregate_coin_data
AggFlows ==
  /\ ppc = "analyze_return" /\ op[1].route # "analyze_whale_flows"
  /\ frame' = [frame EXCEPT !.whale_flows = frame.flow]
  /\ ppc' = "agg_build"
  /\ UNCHANGED <<cache, op, response, stats>>

\* line 292
SourceOf_Provider(cfg, provider) == provider
SourceOf(cfg, provider) == IF cfg.cmc_key THEN "CMC" ELSE "CoinGecko"

\* lines 286-294
AggBuild ==
  /\ ppc = "agg_build"
  /\ frame' = [frame EXCEPT !.coin_data =
       Some([symbol |-> frame.symbol, price |-> frame.price_data[1].price,
             change24h |-> frame.price_data[1].change24h, funding |-> frame.funding,
             whale_flows |-> frame.whale_flows,
             source |-> SourceOf(config, frame.provider)])]
  /\ ppc' = "agg_return"
  /\ UNCHANGED <<cache, op, response, stats>>

\* {**coin_data, 'signal': signal}, line 480
WithSignal(coin_data, signal) ==
  [symbol |-> coin_data.symbol, price |-> coin_data.price, change24h |-> coin_data.change24h,
   funding |-> coin_data.funding, whale_flows |-> coin_data.whale_flows,
   source |-> coin_data.source, signal |-> signal]

\* lines 477-483: one iteration of the scan ends
ScanCollect ==
  /\ ppc = "agg_return" /\ op[1].route = "get_signals"
  /\ IF frame.coin_data # None
     THEN frame' = [frame EXCEPT
            !.signals = Append(@, WithSignal(frame.coin_data[1],
                           GenerateSignals(frame.coin_data[1], op[1].timeframe,
                                           signal_generator.btc_regime,
                                           config.etherscan_key))),
            !.idx = @ + 1]
     ELSE frame' = [frame EXCEPT !.errors = Append(@, frame.symbol), !.idx = @ + 1]
  /\ ppc' = "scan_loop"
  /\ UNCHANGED <<cache, op, response, stats>>

\* lines 498-511
CoinReturn ==
  /\ ppc = "agg_return" /\ op[1].route = "get_single_coin"
  /\ IF frame.coin_data = None
     THEN Respond([status |-> 404, error |-> "Coin not found"])
     ELSE Respond([status |-> 200, symbol |-> Upper(op[1].symbol),
                   price_data |-> frame.coin_data[1],
                   signals |-> [tf \in Timeframes |->
                                  GenerateSignals(frame.coin_data[1], tf,
                                                  signal_generator.btc_regime,
                                                  config.etherscan_key)]])
  /\ UNCHANGED <<cache, op, frame>>

\* line 450: does quotes['BTC'][0]['quote']['USD']['price'] raise; unlike
\* the .get('price') of line 244, the last subscript raises KeyError when
\* the USD object has no price
DebugPriceRaises(quotes) ==
  IF quotes[1]["BTC"] = None THEN TRUE
  ELSE IF QuoteRaises(quotes, "BTC") THEN TRUE
  ELSE quotes[1]["BTC"][1][1].quote[1].USD[1].price = None

\* lines 449-452: get_quotes_latest has returned into debug_apis; the
\* subscripts of line 450 are inside the try
DebugQuotes ==
  /\ ppc = "quotes_return" /\ frame.caller = "debug_apis"
  /\ LET q == frame.quotes
         ok == q # None /\ Truthy(q[1])
         raises == ok /\ DebugPriceRaises(q)
     IN  frame' = [frame EXCEPT !.results =
           [cmc |-> IF ~ok THEN [status |-> "Failed", btc_price |-> None]
                    ELSE IF raises THEN [status |-> "Failed", btc_price |-> None]
                    ELSE [status |-> "Connected",
                          btc_price |-> q[1]["BTC"][1][1].quote[1].USD[1].price]]]
  /\ ppc' = "get_price_data"
  /\ UNCHANGED <<cache, op, response, stats>>

\* lines 453-459: get_price_data has returned or raised into debug_apis
DebugReturn ==
  /\ ppc \in {"price_return", "price_raised"} /\ op[1].route = "debug_apis"
  /\ Respond([status |-> 200, cmc |-> frame.results.cmc,
              coingecko |-> IF ppc = "price_raised" \/ frame.price_data = None
                            THEN [status |-> "Failed", btc_price |-> None]
                            ELSE [status |-> "Connected",
                                  btc_price |-> Some(frame.price_data[1].price)],
              etherscan |-> IF config.etherscan_key THEN "Connected" ELSE "Disabled"])
  /\ UNCHANGED <<cache, op, frame>>

\* time.sleep of line 67 on the serving thread: the clock reaches the wake-up time
SleepElapse ==
  /\ pc[1] = "sleep"
  /\ clock < wakeAt[1]
  /\ clock' = wakeAt[1]
  /\ UNCHANGED <<limRest, cache, op, ppc, frame, response, stats>>

\* the server stays idle between two calls
IdleWait(d) ==
  /\ ppc = "responded"
  /\ stats.waits < stats.served
  /\ clock' = clock + d
  /\ stats' = [stats EXCEPT !.waits = @ + 1]
  /\ UNCHANGED <<limRest, cache, op, ppc, frame, response>>

(***************************************************************************)
(* SpecPipeline: a freshly started server, with any combination of the two *)
(* credentials, serves one request of one of the three routes. Line 284    *)
(* calls the analyzer only for a symbol that has a contract address, and   *)
(* the cache of a fresh server holds no entry, so that the analyzer always *)
(* fetches here; its other two branches are exercised in SpecAnalyze.      *)
(***************************************************************************)
Configs == [cmc_key : BOOLEAN, etherscan_key : BOOLEAN]
ScanTimeframes == Timeframes \cup {"hour"}
Thresholds == {40, 100}
Limits == 0..(Len(COIN_SYMBOLS) + 1)
CoinInputs == {"BTC", "eth"}

PipeNext ==
  \/ (\E tf \in ScanTimeframes, th \in Thresholds, l \in Limits : StartScan(tf, th, l))
     /\ UNCHANGED <<limVars, pipeFixed>>
  \/ ScanNext /\ UNCHANGED <<limVars, pipeFixed>>
  \/ ScanReturn /\ UNCHANGED <<limVars, pipeFixed>>
  \/ (\E s \in CoinInputs : StartCoin(s)) /\ UNCHANGED <<limVars, pipeFixed>>
  \/ StartDebug /\ UNCHANGED <<limVars, pipeFixed>>
  \/ PriceBegin /\ UNCHANGED <<limVars, pipeFixed>>
  \/ GetQuotesNoKey /\ UNCHANGED <<limVars, pipeFixed>>
  \/ GetQuotesAcquire /\ UNCHANGED pipeFixed
  \/ (\E s \in Symbols : \E o \in CmcOutcomes(s) : CmcRequest(s, o)) /\ UNCHANGED pipeFixed
  \/ PricePrimary /\ UNCHANGED <<limVars, pipeFixed>>
  \/ PriceRaise /\ UNCHANGED <<limVars, pipeFixed>>
  \/ PriceFallThrough /\ UNCHANGED <<limVars, pipeFixed>>
  \/ (\E i \in CgIds : \E o \in CgOutcomes(i) : CgRequest(i, o)) /\ UNCHANGED pipeFixed
  \/ AggPrice /\ UNCHANGED <<limVars, pipeFixed>>
  \/ RouteRaise /\ UNCHANGED <<limVars, pipeFixed>>
  \/ (\E o \in FundingOutcomes : FundingRequest(o)) /\ UNCHANGED pipeFixed
  \/ AnalyzeFetch /\ UNCHANGED pipeFixed
  \/ (\E o \in BlockOutcomes : BlockRequest(o)) /\ UNCHANGED pipeFixed
  \/ TxAcquire /\ UNCHANGED pipeFixed
  \/ (\E o \in TxOutcomes : TxRequest(o)) /\ UNCHANGED pipeFixed
  \/ AnalyzeEmpty /\ UNCHANGED <<limVars, pipeFixed>>
  \/ AnalyzeStore /\ UNCHANGED <<limVars, pipeFixed>>
  \/ AggFlows /\ UNCHANGED <<limVars, pipeFixed>>
  \/ AggBuild /\ UNCHANGED <<limVars, pipeFixed>>
  \/ ScanCollect /\ UNCHANGED <<limVars, pipeFixed>>
  \/ CoinReturn /\ UNCHANGED <<limVars, pipeFixed>>
  \/ DebugQuotes /\ UNCHANGED <<limVars, pipeFixed>>
  \/ DebugReturn /\ UNCHANGED <<limVars, pipeFixed>>
  \/ AcquireLock(1) /\ UNCHANGED notLim
  \/ LoopSleep(1) /\ UNCHANGED notLim
  \/ LoopPop(1) /\ UNCHANGED notLim
  \/ Wake(1) /\ UNCHANGED notLim
  \/ LoopExit(1) /\ UNCHANGED notLim
  \/ AppendNow(1) /\ UNCHANGED notLim
  \/ SleepElapse /\ UNCHANGED pipeFixed

PipelineInit == PipeInit(Configs)

SpecPipeline == PipelineInit /\ [][PipeNext]_vars

(***************************************************************************)
(* SpecAnalyze: analyze_whale_flows called up to MaxOps times, the server  *)
(* staying idle for a while between two calls or not at all.               *)
(***************************************************************************)
AnalyzeNext ==
  \/ (\E s \in Symbols, h \in Hours : stats.served < MaxOps /\ StartAnalyze(s, h))
     /\ UNCHANGED <<limVars, pipeFixed>>
  \/ AnalyzeUnresolved /\ UNCHANGED <<limVars, pipeFixed>>
  \/ AnalyzeCached /\ UNCHANGED <<limVars, pipeFixed>>
  \/ AnalyzeFetch /\ UNCHANGED pipeFixed
  \/ (\E o \in BlockOutcomes : BlockRequest(o)) /\ UNCHANGED pipeFixed
  \/ TxAcquire /\ UNCHANGED pipeFixed
  \/ (\E o \in TxOutcomes : TxRequest(o)) /\ UNCHANGED pipeFixed
  \/ AnalyzeEmpty /\ UNCHANGED <<limVars, pipeFixed>>
  \/ AnalyzeStore /\ UNCHANGED <<limVars, pipeFixed>>
  \/ AnalyzeRespond /\ UNCHANGED <<limVars, pipeFixed>>
  \/ (\E d \in IdleWaits : IdleWait(d)) /\ UNCHANGED pipeFixed
  \/ AcquireLock(1) /\ UNCHANGED notLim
  \/ LoopSleep(1) /\ UNCHANGED notLim
  \/ LoopPop(1) /\ UNCHANGED notLim
  \/ Wake(1) /\ UNCHANGED notLim
  \/ LoopExit(1) /\ UNCHANGED notLim
  \/ AppendNow(1) /\ UNCHANGED notLim
  \/ SleepElapse /\ UNCHANGED pipeFixed

\* the tracker exists only with an Etherscan credential, line 235
AnalyzeInit == PipeInit({c \in Configs : c.etherscan_key})

SpecAnalyze == AnalyzeInit /\ [][AnalyzeNext]_vars

(***************************************************************************)
(* Properties of the limiter.                                              *)
(***************************************************************************)
\* timestamps recorded in the trailing window (T - 1 s, T]
InWindow(T) == {i \in DOMAIN recorded : T - Second < recorded[i] /\ recorded[i] <= T}

WindowBound == \A T \in 0..MaxTime : Cardinality(InWindow(T)) <= REQUESTS_PER_SECOND

\* C1: for any sequence of acquire() calls, no trailing 1-second window
\* (T - 1 s, T] holds more than N = REQUESTS_PER_SECOND recorded timestamps.
C1_WindowBound == WindowBound

\* C1 witness: a third timestamp has been recorded after the oldest one was
\* dropped, and some window holds exactly N timestamps.
C1_Witness ==
  /\ Len(recorded) > REQUESTS_PER_SECOND
  /\ \E T \in 0..MaxTime : Cardinality(InWindow(T)) = REQUESTS_PER_SECOND

\* C2: every acquire() returns once time advances: a caller that found the
\* window full sleeps for the remaining time plus the margin, re-checks against
\* the current time, drops the expired entry, records its timestamp and
\* returns. A call therefore never goes to sleep a second time.
C2_ReturnsAfterOneSleep == \A t \in Threads : sleeps[t] <= 1

\* C10: with concurrent callers, in every interleaving (a caller may read the
\* clock long before it obtains the lock), no trailing 1-second window holds
\* more than N recorded timestamps, and each returned call has recorded
\* exactly one timestamp.
C10_ConcurrentBound ==
  /\ \A T \in 0..MaxTime : Cardinality(InWindow(T)) <= REQUESTS_PER_SECOND
  /\ \A t \in Threads : pc[t] = "done" => appended[t] = 1
  /\ Len(recorded) = returned

\* C10 witness: a caller that read the clock before another caller recorded a
\* later timestamp has recorded its own, older, timestamp after it, and the
\* oldest entry was dropped on the way.
C10_Witness ==
  /\ Len(recorded) > REQUESTS_PER_SECOND
  /\ \E i, j \in DOMAIN recorded : i < j /\ recorded[j] < recorded[i]
  /\ \E t \in Threads : pc[t] = "done"

(***************************************************************************)
(* Properties of the analyzer and of the signal generator.                 *)
(***************************************************************************)
\* C4: every FlowResult analyze returns satisfies
\* netFlowUsd = buyPressureUsd - sellPressureUsd.
C4_NetIsBuyMinusSell ==
  flowOut # None =>
    flowOut[1].net_flow = DSub(flowOut[1].buy_pressure, flowOut[1].sell_pressure)

\* the base signal of the call in sigIn
SigBase ==
  IF sigIn.call \in {"generate_signals", "_generate_base_signal"}
  THEN GenerateBaseSignal(sigIn.coin_data, sigIn.timeframe, sigIn.btc_regime)
  ELSE sigIn.signal

SigEnhanced == sigOut # None /\ "whale_count" \in DOMAIN sigOut[1]

\* C6: for every base signal (any direction) and every flow with
\* whaleCount > 0, the enhanced score is an integer with
\* baseScore <= enhancedScore <= 95.
C6_EnhancementBound ==
  SigEnhanced /\ sigOut[1].whale_count > 0 =>
    /\ sigOut[1].score \in 0..95
    /\ SigBase.score <= sigOut[1].score

\* C6 witness: a SHORT base signal of score 90 was enhanced with a flow of 5
\* whale wallets and a net flow of -2,500,000 (both boosts at their maximum),
\* and the cap of 95 applied.
C6_Witness ==
  /\ SigEnhanced
  /\ SigBase.score = 90
  /\ SigBase.direction = "SHORT"
  /\ sigOut[1].whale_count = 5
  /\ sigOut[1].whale_flow = Dbl(0, -2500000)
  /\ sigOut[1].score = 95

(***************************************************************************)
(* Properties of the request pipeline.                                     *)
(***************************************************************************)
\* the route being served is get_signals with a valid timeframe
ScanDone ==
  /\ ppc = "responded"
  /\ op # None /\ op[1].route = "get_signals" /\ op[1].timeframe \in Timeframes

\* the symbols of the signals and of the errors of a scan's response
Listed(r) == [i \in 1..Len(r.signals) |-> r.signals[i].symbol] \o r.errors
Occurrences(seq, x) == Cardinality({i \in DOMAIN seq : seq[i] = x})

\* C3: get_price_data never raises; whenever it returns without a usable
\* primary quote it has consulted the fallback exactly once, and it returns
\* absent when the fallback fails too.
C3_FetchQuoteNeverRaises ==
  /\ ppc # "price_raised"
  /\ (ppc = "price_return" /\ frame.provider # "CMC") => stats.cg = frame.entry.cg + 1
  /\ (ppc = "price_return" /\ frame.provider = "") => frame.price_data = None

\* C7: a scan with limit L >= 0 completes, and its response lists each of
\* the first min(L, number of symbols) symbols exactly once and no other: in
\* signals when a price resolved, otherwise in errors.
C7_ScanListsEachSymbolOnce ==
  ScanDone =>
    /\ response[1].status = 200
    /\ LET n == Min(op[1].limit, Len(COIN_SYMBOLS))
           r == response[1]
       IN  /\ Len(Listed(r)) = n
           /\ \A i \in 1..n : Occurrences(Listed(r), COIN_SYMBOLS[i]) = 1
           /\ \A i \in 1..n :
                (cache.prices[COIN_SYMBOLS[i]] # None) <=>
                  (\E j \in DOMAIN r.signals : r.signals[j].symbol = COIN_SYMBOLS[i])

\* C8: without a CoinMarketCap credential, get_price_data sends no request
\* to CoinMarketCap and records no limiter timestamp, does not raise, and
\* returns after exactly one fallback request with the fallback's quote or
\* with absent.
C8_NoKeyFallbackOnly ==
  ~config.cmc_key =>
    /\ stats.cmc = 0
    /\ ppc \notin {"cmc_wait", "price_raised"}
    /\ (frame.caller = "get_price_data" /\ ppc \in {"quotes_return", "cg_request", "price_return"})
         => Len(recorded) = frame.entry.recorded
    /\ ppc = "price_return" =>
         /\ stats.cg = frame.entry.cg + 1
         /\ \/ frame.price_data = None
            \/ frame.provider = "CoinGecko" /\ cache.prices[frame.symbol] = frame.price_data

\* C8 witness: no credential, and get_price_data returns the fallback's quote
\* for the second symbol of a scan.
C8_Witness ==
  /\ ~config.cmc_key
  /\ ppc = "price_return" /\ frame.idx = 1
  /\ frame.price_data # None
  /\ stats.cg = 2

\* C9: the requests issued to Etherscan and to CoinMarketCap never outnumber
\* the timestamps the limiter has recorded.
C9_RequestsFollowAcquire == stats.cmc + stats.etherscan <= Len(recorded)

\* C9 witness: a scan has sent two requests to CoinMarketCap and both
\* explorer requests, each after one recorded timestamp.
C9_Witness ==
  /\ stats.cmc = 2 /\ stats.etherscan = 2
  /\ Len(recorded) = 4

\* C5: whenever analyze_whale_flows has fetched from the explorer, the result
\* it returns is stored under (symbol, hours), whatever the explorer returned.
C5_FetchedResultIsStored ==
  (ppc = "analyze_return" /\ frame.fetched) =>
    LET entry == cache.whale_transactions[CacheKey(frame.token_symbol, frame.hours)]
    IN  entry # None /\ entry[1].data = frame.flow[1] /\ entry[1].timestamp = frame.now

\* the cache entry analyze_whale_flows looks at
EntryOf(f) == cache.whale_transactions[CacheKey(f.token_symbol, f.hours)]

\* C11: analyze_whale_flows returns the cached result, sending nothing to
\* the explorer, exactly when an entry for (symbol, hours) is younger than
\* 300 s; an entry of 300 s or more is left in place and the explorer is
\* asked again; an entry is never removed and changes only when a result
\* is stored under its own key.
C11_CacheFreshness ==
  [][/\ (ppc = "analyze" /\ ppc' # "analyze" /\ Upper(frame.token_symbol) \in TOKEN_ADDRESSES) =>
          IF EntryOf(frame) # None /\ clock - EntryOf(frame)[1].timestamp < 300 * Second
          THEN /\ ppc' = "analyze_return"
               /\ frame'.flow = Some(EntryOf(frame)[1].data)
               /\ stats' = stats /\ cache' = cache
          ELSE ppc' = "block_wait" /\ cache' = cache
     /\ \A k \in CacheKeys :
          cache'.whale_transactions[k] # cache.whale_transactions[k] =>
            /\ cache'.whale_transactions[k] # None
            /\ ppc = "transactions_return"
            /\ k = CacheKey(frame.token_symbol, frame.hours)]_vars

\* C11 witness: a call finds an entry that is exactly 300 s old and goes to
\* the explorer.
C11_Witness ==
  /\ ppc = "block_wait"
  /\ EntryOf(frame) # None
  /\ frame.now - EntryOf(frame)[1].timestamp = 300 * Second

(***************************************************************************)
(* Properties of _generate_base_signal.                                    *)
(***************************************************************************)
\* _generate_base_signal has returned for the timeframe tf
BaseDone(tf) ==
  sigOut # None /\ sigIn.call = "_generate_base_signal" /\ sigIn.timeframe = tf

IsFlat(s) == s.direction = "FLAT" /\ s.label = "NO EDGE" /\ s.score = 0

\* C12: for timeframe day the base signal follows the table: |c| > 12 ->
\* 80, HIGH, LONG/BREAKOUT or SHORT/CAPITULATION; 6 < |c| <= 12 -> 65,
\* MEDIUM, LONG only with accumulation and c > 0, SHORT only with
\* distribution and c < 0, otherwise FLAT/NO EDGE with score 0; 2 < |c| <= 6
\* -> 52, LOW, MILD MOMENTUM in the direction of c; |c| <= 2 -> FLAT/NO EDGE.
C12_DayTable ==
  BaseDone("day") =>
    LET c == sigIn.coin_data.change24h
        r == sigIn.btc_regime
        s == sigOut[1]
    IN  IF Abs(c) > 12
        THEN /\ s.score = 80 /\ s.risk = "HIGH"
             /\ IF c > 0 THEN s.direction = "LONG" /\ s.label = "BREAKOUT"
                ELSE s.direction = "SHORT" /\ s.label = "CAPITULATION"
        ELSE IF Abs(c) > 6
        THEN IF r = "accumulation" /\ c > 0
             THEN s.direction = "LONG" /\ s.score = 65 /\ s.risk = "MEDIUM"
             ELSE IF r = "distribution" /\ c < 0
             THEN s.direction = "SHORT" /\ s.score = 65 /\ s.risk = "MEDIUM"
             ELSE IsFlat(s)
        ELSE IF Abs(c) > 2
        THEN /\ s.score = 52 /\ s.risk = "LOW" /\ s.label = "MILD MOMENTUM"
             /\ s.direction = IF c > 0 THEN "LONG" ELSE "SHORT"
        ELSE IsFlat(s)

\* C12 witness: a rise of 7 % under distribution yields FLAT, not the mild
\* momentum signal.
C12_Witness ==
  /\ BaseDone("day")
  /\ sigIn.coin_data.change24h = 7 /\ sigIn.btc_regime = "distribution"
  /\ IsFlat(sigOut[1])

\* C13: for timeframe scalp with funding rate f the base signal follows the
\* table: |f| > 0.05 -> 90, HIGH, EXTREME SQUEEZE; else |f| > 0.025 -> 70,
\* MEDIUM, FUNDING PRESSURE; else |f| > 0.005 -> 55, LOW, LIGHT FUNDING
\* BIAS; else FLAT/NO EDGE, score 0; the breakpoints are strict, a signal
\* that is not FLAT is SHORT for f > 0 and LONG for f < 0, and without a
\* funding rate the signal is the default FLAT/NO EDGE.
C13_ScalpTable ==
  BaseDone("scalp") =>
    LET s == sigOut[1]
    IN  IF sigIn.coin_data.funding = None THEN s = DefaultSignal
        ELSE LET f == sigIn.coin_data.funding[1]
             IN  /\ IF Abs(f) > 10
                    THEN s.score = 90 /\ s.risk = "HIGH" /\ s.label = "EXTREME SQUEEZE"
                    ELSE IF Abs(f) > 5
                    THEN s.score = 70 /\ s.risk = "MEDIUM" /\ s.label = "FUNDING PRESSURE"
                    ELSE IF Abs(f) > 1
                    THEN s.score = 55 /\ s.risk = "LOW" /\ s.label = "LIGHT FUNDING BIAS"
                    ELSE IsFlat(s)
                 /\ Abs(f) > 1 => s.direction = IF f > 0 THEN "SHORT" ELSE "LONG"

\* C13 witness: a funding rate of exactly 0.05 % yields FUNDING PRESSURE,
\* SHORT, 70.
C13_Witness ==
  /\ BaseDone("scalp")
  /\ sigIn.coin_data.funding = Some(10)
  /\ sigOut[1].label = "FUNDING PRESSURE" /\ sigOut[1].direction = "SHORT"

\* C14: for timeframe swing: BTC -> LONG under accumulation, else SHORT,
\* score 90, LOW, '<REGIME> PHASE', whatever the 24h change; otherwise
\* accumulation and 5 < c < 15 -> LONG, 75, MEDIUM, POSITION BUILD;
\* otherwise |c| > 3 -> 55, MEDIUM, SWING MOMENTUM in the direction of c;
\* otherwise FLAT/NO EDGE, score 0.
C14_SwingTable ==
  BaseDone("swing") =>
    LET c == sigIn.coin_data.change24h
        r == sigIn.btc_regime
        s == sigOut[1]
    IN  IF sigIn.coin_data.symbol = "BTC"
        THEN /\ s.direction = IF r = "accumulation" THEN "LONG" ELSE "SHORT"
             /\ s.score = 90 /\ s.risk = "LOW"
             /\ s.label = IF r = "accumulation" THEN "ACCUMULATION PHASE"
                          ELSE "DISTRIBUTION PHASE"
        ELSE IF r = "accumulation" /\ 5 < c /\ c < 15
        THEN s.direction = "LONG" /\ s.score = 75 /\ s.risk = "MEDIUM"
             /\ s.label = "POSITION BUILD"
        ELSE IF Abs(c) > 3
        THEN /\ s.score = 55 /\ s.risk = "MEDIUM" /\ s.label = "SWING MOMENTUM"
             /\ s.direction = IF c > 0 THEN "LONG" ELSE "SHORT"
        ELSE IsFlat(s)

\* C14 witness: BTC with a 24h change of 0 under distribution yields SHORT,
\* 90, DISTRIBUTION PHASE.
C14_Witness ==
  /\ BaseDone("swing")
  /\ sigIn.coin_data.symbol = "BTC" /\ sigIn.coin_data.change24h = 0
  /\ sigIn.btc_regime = "distribution"
  /\ sigOut[1].direction = "SHORT" /\ sigOut[1].score = 90

(***************************************************************************)
(* Properties of the explorer client and of the analyzer.                  *)
(***************************************************************************)
\* the explorer requests sent since get_whale_transactions was entered
ExplorerRequests == stats.etherscan - frame.explorer_before

\* C15: get_whale_transactions always returns a sequence: when the
\* block-height request fails, is refused or yields a number that does not
\* parse, it returns the empty sequence after that single request; after
\* the transfer-list request it returns the list received, or the empty
\* sequence when that request failed.
C15_FetchTransfersTotal ==
  /\ ppc \in {"tx_acquire", "tx_wait"} =>
       frame.reply = Some("0x10") /\ ExplorerRequests = 1
  /\ ppc = "transactions_return" =>
       /\ frame.transactions \in {<<>>} \cup PipeBatches
       /\ ExplorerRequests \in {1, 2}
       /\ ExplorerRequests = 1 => frame.reply # Some("0x10") /\ frame.transactions = <<>>
       /\ ExplorerRequests = 2 =>
            frame.transactions = IF frame.reply = None THEN <<>> ELSE frame.reply[1]

\* C15 witness: the block number does not parse, and the empty sequence is
\* returned after one request.
C15_Witness ==
  /\ ppc = "transactions_return"
  /\ frame.reply = Some("zz")
  /\ frame.transactions = <<>> /\ ExplorerRequests = 1

\* the USD value of a well-formed transfer
UsdOf(tx, price) == DMulInt(DRound(tx.amount), price)
\* a well-formed transfer whose USD value strictly exceeds 500,000
Qualifies(tx, price) == tx.parse = "ok" /\ DGtInt(UsdOf(tx, price), 500000)
\* sell when the destination is an exchange wallet, else buy when the source
\* is one
SideOf(tx) ==
  IF Lower(tx.to) \in get_exchange_wallets THEN "sell"
  ELSE IF Lower(tx.from) \in get_exchange_wallets THEN "buy"
  ELSE "none"

RECURSIVE PressureOf(_, _, _, _)
\* the sum, in batch order, of the USD values of the first n transfers that
\* qualify and are on the given side
PressureOf(txs, n, price, side) ==
  IF n = 0 THEN DZero
  ELSE LET before == PressureOf(txs, n - 1, price, side)
       IN  IF Qualifies(txs[n], price) /\ SideOf(txs[n]) = side
           THEN DAdd(before, UsdOf(txs[n], price))
           ELSE before

RECURSIVE NetOf(_, _, _)
\* the running net flow after the first n transfers
NetOf(txs, n, price) ==
  LET before == NetOf(txs, n - 1, price)
  IN  IF n = 0 THEN DZero
      ELSE IF ~Qualifies(txs[n], price) THEN before
      ELSE IF SideOf(txs[n]) = "sell" THEN DSub(before, UsdOf(txs[n], price))
      ELSE IF SideOf(txs[n]) = "buy" THEN DAdd(before, UsdOf(txs[n], price))
      ELSE before

\* the distinct endpoint addresses of the qualifying transfers
EndpointsOf(txs, price) ==
  UNION {{Lower(txs[i].from), Lower(txs[i].to)} :
           i \in {j \in DOMAIN txs : Qualifies(txs[j], price)}}

\* C16: the FlowResult computed from a fetched batch is the fold over its
\* well-formed transfers above 500,000 USD: a transfer to an exchange wallet
\* adds to the sell pressure and subtracts from the net flow, also when it
\* comes from an exchange wallet; otherwise a transfer from an exchange
\* wallet adds to the buy pressure and to the net flow; whale_count is the
\* number of distinct endpoints of the qualifying transfers; a malformed
\* transfer contributes nothing.
C16_FlowIsFold ==
  flowOut # None =>
    LET txs == flowIn.txs
        price == flowIn.price
    IN  /\ flowOut[1].sell_pressure = PressureOf(txs, Len(txs), price, "sell")
        /\ flowOut[1].buy_pressure = PressureOf(txs, Len(txs), price, "buy")
        /\ flowOut[1].net_flow = NetOf(txs, Len(txs), price)
        /\ flowOut[1].whale_count = Cardinality(EndpointsOf(txs, price))

\* C16 witness: a batch with a malformed transfer, a qualifying transfer
\* between two exchange wallets and a qualifying transfer between two other
\* wallets: sell pressure only, and three whale wallets.
C16_Witness ==
  /\ flowOut # None
  /\ \E i, j, k \in DOMAIN flowIn.txs :
       /\ flowIn.txs[i] = BadTransfer
       /\ Qualifies(flowIn.txs[j], flowIn.price)
       /\ Lower(flowIn.txs[j].from) \in get_exchange_wallets
       /\ Lower(flowIn.txs[j].to) \in get_exchange_wallets
       /\ Qualifies(flowIn.txs[k], flowIn.price)
       /\ SideOf(flowIn.txs[k]) = "none"
  /\ flowOut[1].buy_pressure = DZero
  /\ DGtInt(flowOut[1].sell_pressure, 500000)
  /\ flowOut[1].whale_count = 3

\* C17: the timestamp a call appends to the window is the time at the moment
\* of the append, not a clock reading taken earlier in the call.
C17_AppendsCurrentTime ==
  [][Len(recorded') = Len(recorded) + 1 => recorded'[Len(recorded')] = clock']_vars

(***************************************************************************)
(* Properties of the aggregator.                                           *)
(***************************************************************************)
\* C18: in every snapshot aggregate_coin_data returns, source names the
\* provider the quote of the snapshot was obtained from, also when the
\* primary provider is configured and gave no usable price.
C18_SourceNamesProvider ==
  (ppc = "agg_return" /\ frame.coin_data # None) =>
     frame.coin_data[1].source = frame.provider

(***************************************************************************)
(* Properties of generate_signals.                                         *)
(***************************************************************************)
\* a call of generate_signals has returned
GenerateDone == sigOut # None /\ sigIn.call = "generate_signals"

\* the conditions under which the whale enhancement applies
Enhanceable ==
  /\ sigIn.coin_data.symbol \in TOKEN_ADDRESSES
  /\ sigIn.whale_tracker
  /\ sigIn.coin_data.whale_flows # None
  /\ sigIn.coin_data.whale_flows[1].whale_count > 0

\* C19: generate_signals applies the whale enhancement only if the symbol
\* has a contract address, whale tracking is enabled and whale_count > 0,
\* and otherwise returns the base signal unchanged, without whale fields;
\* an enhanced signal has the direction, label, risk, target and whale
\* probability of the base signal, and whale_flow and whale_count are the
\* flow's net flow and whale count.
C19_EnhancementFrame ==
  GenerateDone =>
    IF Enhanceable
    THEN /\ DOMAIN sigOut[1] = DOMAIN SigBase \cup {"whale_flow", "whale_count"}
         /\ \A k \in DOMAIN SigBase \ {"score"} : sigOut[1][k] = SigBase[k]
         /\ sigOut[1].whale_flow = sigIn.coin_data.whale_flows[1].net_flow
         /\ sigOut[1].whale_count = sigIn.coin_data.whale_flows[1].whale_count
    ELSE sigOut[1] = SigBase

\* C19 witness: an enhanced ETH signal whose score was raised, and nothing
\* else changed.
C19_Witness ==
  /\ GenerateDone /\ Enhanceable
  /\ sigIn.coin_data.symbol = "ETH"
  /\ sigOut[1].score > SigBase.score
  /\ sigOut[1].label = SigBase.label
  /\ sigOut[1].whale_count = 4

(***************************************************************************)
(* Properties of the regime flag.                                          *)
(***************************************************************************)
\* the labels of the rules that need the accumulation regime
AccumulationLabels == {"BTC BETA PLAY", "POSITION BUILD", "ACCUMULATION PHASE"}

\* the BTC swing signal of the distribution regime
IsDistributionPhase(s) ==
  s.direction = "SHORT" /\ s.label = "DISTRIBUTION PHASE" /\ s.score = 90

\* a response that carries signals
ScanAnswered ==
  ppc = "responded" /\ op[1].route = "get_signals" /\ response[1].status = 200
CoinAnswered ==
  ppc = "responded" /\ op[1].route = "get_single_coin" /\ response[1].status = 200

\* C20: no operation changes the regime flag: it is 'distribution' in every
\* reachable state, every BTC swing signal served is SHORT 'DISTRIBUTION
\* PHASE' with score 90, and no signal served comes from a rule that needs
\* the accumulation regime.
C20_RegimeIsDistribution ==
  /\ signal_generator.btc_regime = "distribution"
  /\ ScanAnswered =>
       /\ response[1].phase = "distribution"
       /\ \A i \in DOMAIN response[1].signals :
            LET e == response[1].signals[i]
            IN  /\ e.signal.label \notin AccumulationLabels
                /\ (e.symbol = "BTC" /\ op[1].timeframe = "swing") =>
                      IsDistributionPhase(e.signal)
  /\ CoinAnswered =>
       /\ \A tf \in Timeframes : response[1].signals[tf].label \notin AccumulationLabels
       /\ response[1].symbol = "BTC" => IsDistributionPhase(response[1].signals["swing"])

\* C20 witness: /api/coin/BTC answered for a 24h change of +7 %: the swing
\* signal is the distribution one and the day signal is flat, where the
\* accumulation regime would have given BTC BETA PLAY.
C20_Witness ==
  /\ CoinAnswered
  /\ response[1].symbol = "BTC"
  /\ response[1].price_data.change24h = 7
  /\ IsDistributionPhase(response[1].signals["swing"])
  /\ response[1].signals["day"].label = "NO EDGE"

(***************************************************************************)
(* Properties of the window's capacity.                                    *)
(***************************************************************************)
\* C21: after any sequence and any interleaving of wait_for_rate_limit
\* calls, request_times holds at most REQUESTS_PER_SECOND entries, so the
\* deque's maxlen of twice that is never reached, and no append discards a
\* timestamp: every append lengthens the window by one entry.
C21_WindowNeverOverflows ==
  /\ [](Len(request_times) <= REQUESTS_PER_SECOND /\ Len(request_times) < DequeMaxLen)
  /\ [][Len(recorded') = Len(recorded) + 1 =>
          request_times' = Append(request_times, recorded'[Len(recorded')])]_vars

\* C21 witness: more calls have returned than the window holds, by callers
\* of both threads, and the window is full.
C21_Witness ==
  /\ Len(recorded) > REQUESTS_PER_SECOND
  /\ Len(request_times) = REQUESTS_PER_SECOND
  /\ \A t \in Threads : pc[t] = "done"
====
